---- MODULE Spec2Model ----
(***************************************************************************)
(* A model of app/main.py.py of the BL drama recommendation system: the    *)
(* catalog load (lines 10-52), recommend (lines 63-90) and get_top_rated   *)
(* (lines 92-95).                                                          *)
(*                                                                         *)
(* A text is a sequence of one-character strings; indices into Python      *)
(* strings and lists are kept 0-based as in the code and shifted by one    *)
(* where a TLA+ sequence is read.                                          *)
(***************************************************************************)
EXTENDS Integers, Sequences, FiniteSets, TLC

(***************************************************************************)
(* Bounds of the model.                                                    *)
(***************************************************************************)
MaxRows == 2
MaxQueryLen == 3
MaxCount == 2
MaxPage == 3
MaxPerPage == 2

(***************************************************************************)
(* Generic helpers.                                                        *)
(***************************************************************************)
\* F applied to the value of e: e is evaluated once and its value named, as
\* an assignment to a local variable does
Bind(e, F(_)) == CHOOSE y \in {F(x) : x \in {e}} : TRUE

Max(S) == Bind(S, LAMBDA T : CHOOSE x \in T : \A y \in T : y <= x)
Min(S) == Bind(S, LAMBDA T : CHOOSE x \in T : \A y \in T : x <= y)

\* s[lo:hi], Python slice with 0 <= lo
Slice(s, lo, hi) ==
    LET h == IF hi > Len(s) THEN Len(s) ELSE hi
    IN IF lo >= h THEN << >> ELSE [k \in 1..(h - lo) |-> s[lo + k]]

RECURSIVE Concat(_)
Concat(ss) == IF ss = << >> THEN << >> ELSE Head(ss) \o Concat(Tail(ss))

\* sep.join(parts)
RECURSIVE Join(_, _)
Join(sep, parts) ==
    IF parts = << >> THEN << >>
    ELSE IF Len(parts) = 1 THEN parts[1]
    ELSE parts[1] \o sep \o Join(sep, Tail(parts))

\* str.lower() on the characters of the model's alphabet
LowerChar(c) ==
    CASE c = "A" -> "a"
      [] c = "B" -> "b"
      [] c = "D" -> "d"
      [] c = "N" -> "n"
      [] c = "R" -> "r"
      [] OTHER -> c
lower(s) == [k \in 1..Len(s) |-> LowerChar(s[k])]

\* str.strip(): leading and trailing whitespace removed
strip(s) ==
    Bind({k \in 1..Len(s) : s[k] # " "},
         LAMBDA keep : IF keep = {} THEN << >> ELSE Slice(s, Min(keep) - 1, Max(keep)))

\* literal containment, Python's `sub in s`
IsSubstring(sub, s) ==
    \E off \in 0..(Len(s) - Len(sub)) : \A k \in 1..Len(sub) : s[off + k] = sub[k]

(***************************************************************************)
(* difflib.SequenceMatcher(None, a, b), the matcher fuzzywuzzy falls back  *)
(* to (fuzz.partial_ratio, line 70).  A match is <<i, j, k>>:              *)
(* a[i:i+k] = b[j:j+k].                                                    *)
(***************************************************************************)
AutojunkMinLen == 200

\* __chain_b: with autojunk, in a b of 200 or more elements those that occur
\* more than len(b) // 100 + 1 times are dropped from b2j
Popular(b) ==
    IF Len(b) >= AutojunkMinLen
    THEN {c \in {b[k] : k \in 1..Len(b)} :
            Cardinality({k \in 1..Len(b) : b[k] = c}) > (Len(b) \div 100) + 1}
    ELSE {}

\* j2len: the length of the run of equal b2j elements ending at a[i], b[j]
RECURSIVE RunLen(_, _, _, _, _, _, _)
RunLen(a, b, popular, alo, blo, i, j) ==
    IF i < alo \/ j < blo THEN 0
    ELSE IF a[i + 1] = b[j + 1] /\ b[j + 1] \notin popular
         THEN 1 + RunLen(a, b, popular, alo, blo, i - 1, j - 1)
         ELSE 0

\* the two loops that extend the best match by equal elements (no element is
\* junk: isjunk is None)
RECURSIVE ExtendLeft(_, _, _, _, _, _, _)
ExtendLeft(a, b, alo, blo, i, j, k) ==
    IF i > alo /\ j > blo /\ a[i] = b[j]
    THEN ExtendLeft(a, b, alo, blo, i - 1, j - 1, k + 1)
    ELSE <<i, j, k>>

RECURSIVE ExtendRight(_, _, _, _, _, _, _)
ExtendRight(a, b, ahi, bhi, i, j, k) ==
    IF i + k < ahi /\ j + k < bhi /\ a[i + k + 1] = b[j + k + 1]
    THEN ExtendRight(a, b, ahi, bhi, i, j, k + 1)
    ELSE <<i, j, k>>

\* the longest run of j2len, the earliest in a and then the earliest in b
LongestRun(kf, alo, blo) ==
    Bind(IF DOMAIN kf = {} THEN 0 ELSE Max({kf[c] : c \in DOMAIN kf}),
         LAMBDA bestsize :
           IF bestsize = 0 THEN <<alo, blo, 0>>
           ELSE Bind({<<c[1] - bestsize + 1, c[2] - bestsize + 1>> :
                        c \in {d \in DOMAIN kf : kf[d] = bestsize}},
                     LAMBDA starts :
                       Bind(Min({s[1] : s \in starts}),
                            LAMBDA besti :
                              <<besti, Min({s[2] : s \in {t \in starts : t[1] = besti}}), bestsize>>)))

find_longest_match(a, b, popular, alo, ahi, blo, bhi) ==
    Bind(LongestRun([c \in (alo..(ahi - 1)) \X (blo..(bhi - 1)) |->
                       RunLen(a, b, popular, alo, blo, c[1], c[2])], alo, blo),
         LAMBDA best :
           Bind(ExtendLeft(a, b, alo, blo, best[1], best[2], best[3]),
                LAMBDA m : ExtendRight(a, b, ahi, bhi, m[1], m[2], m[3])))

\* get_matching_blocks without the final (len(a), len(b), 0): the set of the
\* blocks found (their order and the merge of adjacent blocks change neither
\* the sum of the sizes nor the diagonals j - i)
RECURSIVE MatchingBlocksIn(_, _, _, _, _, _, _)
MatchingBlocksIn(a, b, popular, alo, ahi, blo, bhi) ==
    Bind(find_longest_match(a, b, popular, alo, ahi, blo, bhi),
         LAMBDA x :
           IF x[3] = 0 THEN {}
           ELSE {x}
                \cup (IF alo < x[1] /\ blo < x[2]
                      THEN MatchingBlocksIn(a, b, popular, alo, x[1], blo, x[2]) ELSE {})
                \cup (IF x[1] + x[3] < ahi /\ x[2] + x[3] < bhi
                      THEN MatchingBlocksIn(a, b, popular, x[1] + x[3], ahi, x[2] + x[3], bhi)
                      ELSE {}))

get_matching_blocks(a, b) ==
    Bind(Popular(b),
         LAMBDA popular :
           MatchingBlocksIn(a, b, popular, 0, Len(a), 0, Len(b)) \cup {<<Len(a), Len(b), 0>>})

RECURSIVE SumSizes(_)
SumSizes(blocks) ==
    IF blocks = {} THEN 0
    ELSE Bind(CHOOSE y \in blocks : TRUE, LAMBDA x : x[3] + SumSizes(blocks \ {x}))

\* SequenceMatcher.ratio() = 2.0 * matches / (len(a) + len(b)), kept as the
\* fraction <<numerator, denominator>>; 1.0 for two empty sequences
ratio(a, b) ==
    IF Len(a) + Len(b) = 0 THEN <<1, 1>>
    ELSE Bind(get_matching_blocks(a, b),
              LAMBDA blocks : <<2 * SumSizes(blocks), Len(a) + Len(b)>>)

\* int(round(100 * r)): Python 3 rounds a half to the even integer
intr100(r) ==
    LET n == 100 * r[1]
        q == n \div r[2]
        rem == n % r[2]
    IN IF 2 * rem > r[2] THEN q + 1
       ELSE IF 2 * rem < r[2] THEN q
       ELSE IF q % 2 = 0 THEN q ELSE q + 1

\* the score of the block bl: shorter against the stretch of longer it lies in
BlockRatio(shorter, longer, bl) ==
    LET long_start == IF bl[2] - bl[1] > 0 THEN bl[2] - bl[1] ELSE 0
    IN Bind(Slice(longer, long_start, long_start + Len(shorter)),
            LAMBDA long_substr : ratio(shorter, long_substr))

\* fuzzywuzzy.fuzz.partial_ratio(s1, s2)
partial_ratio(s1, s2) ==
    IF s1 = s2 THEN 100
    ELSE IF Len(s1) = 0 \/ Len(s2) = 0 THEN 0
    ELSE LET shorter == IF Len(s1) <= Len(s2) THEN s1 ELSE s2
             longer == IF Len(s1) <= Len(s2) THEN s2 ELSE s1
         IN Bind({BlockRatio(shorter, longer, bl) : bl \in get_matching_blocks(shorter, longer)},
                 LAMBDA scores :
                   IF \E r \in scores : 1000 * r[1] > 995 * r[2] THEN 100
                   ELSE intr100(CHOOSE r \in scores : \A t \in scores : t[1] * r[2] <= r[1] * t[2]))

(***************************************************************************)
(* The input table (line 10): a cell holds a text, or nothing (NaN).       *)
(***************************************************************************)
NaN == <<"NaN">>
isna(cell) == cell = NaN
fillna(cell, value) == IF isna(cell) THEN value ELSE cell

NotSpecified == <<"N", "o", "t", " ", "s", "p", "e", "c", "i", "f", "i", "e", "d">>
Drama == <<"D", "r", "a", "m", "a">>
Romance == <<"R", "o", "m", "a", "n", "c", "e">>

\* a Mood_Tags cell of 200 characters: "aa, " fifty times
LongMoodTags == Concat([k \in 1..50 |-> <<"a", "a", ",", " ">>])

\* the text cells of the rows the catalogs are drawn from
TextCells ==
    { [Title |-> <<"A", "a">>, Genres |-> Drama, Mood_Tags |-> NaN, Summary |-> NaN, Main_Leads |-> NaN],
      [Title |-> <<"B">>, Genres |-> NaN, Mood_Tags |-> <<"a", "a">>, Summary |-> NaN, Main_Leads |-> NaN],
      [Title |-> <<"A", "b">>, Genres |-> NaN, Mood_Tags |-> NaN, Summary |-> NaN, Main_Leads |-> NaN],
      [Title |-> <<"B", "b">>, Genres |-> NaN, Mood_Tags |-> NaN, Summary |-> NaN, Main_Leads |-> NaN],
      [Title |-> <<"B", "b">>, Genres |-> NaN, Mood_Tags |-> LongMoodTags, Summary |-> NaN, Main_Leads |-> NaN],
      [Title |-> <<"A", ".">>, Genres |-> <<"a">>, Mood_Tags |-> <<"a">>, Summary |-> <<"a">>, Main_Leads |-> <<"a">>] }

\* the rating cells: missing, text, a negative number, "inf", numbers
RatingCells == { NaN, <<"x">>, <<"-", "3">>, <<"i", "n", "f">>, <<"7">>, <<"1", "2">> }

CsvRow(text, rating) ==
    [Title |-> text.Title, Genres |-> text.Genres, Mood_Tags |-> text.Mood_Tags,
     Summary |-> text.Summary, Main_Leads |-> text.Main_Leads,
     Personal_rating_out_of_10 |-> rating]

\* a row varies in its text or in its rating
CsvRows ==
    {CsvRow(t, <<"7">>) : t \in TextCells}
    \cup {CsvRow([Title |-> <<"A", "b">>, Genres |-> NaN, Mood_Tags |-> NaN,
                  Summary |-> NaN, Main_Leads |-> NaN], r) : r \in RatingCells}

Catalogs == UNION {[1..n -> CsvRows] : n \in 1..MaxRows}

(***************************************************************************)
(* pd.to_numeric(..., errors="coerce").fillna(0) (line 16).  A float is an *)
(* integer; Infinity, -Infinity and NaNFloat stand for inf, -inf and nan.  *)
(***************************************************************************)
Infinity == 1000000
NaNFloat == 2000000
Digits == {"0", "1", "2", "3", "4", "5", "6", "7", "8", "9"}
DigitVal(c) ==
    CASE c = "0" -> 0 [] c = "1" -> 1 [] c = "2" -> 2 [] c = "3" -> 3 [] c = "4" -> 4
      [] c = "5" -> 5 [] c = "6" -> 6 [] c = "7" -> 7 [] c = "8" -> 8 [] c = "9" -> 9

RECURSIVE ParseDigits(_)
ParseDigits(s) ==
    IF s = << >> THEN 0 ELSE 10 * ParseDigits(SubSeq(s, 1, Len(s) - 1)) + DigitVal(s[Len(s)])

IsDigits(s) == Len(s) > 0 /\ \A k \in 1..Len(s) : s[k] \in Digits

\* the parse of one cell; what does not parse is coerced to NaN
to_numeric(cell) ==
    LET neg == cell # << >> /\ Head(cell) = "-"
        body == IF cell # << >> /\ Head(cell) \in {"-", "+"} THEN Tail(cell) ELSE cell
        sign == IF neg THEN -1 ELSE 1
    IN IF isna(cell) THEN NaNFloat
       ELSE IF IsDigits(body) THEN sign * ParseDigits(body)
       ELSE IF lower(body) \in {<<"i", "n", "f">>, <<"i", "n", "f", "i", "n", "i", "t", "y">>}
            THEN sign * Infinity
       ELSE NaNFloat

fillna_num(x, value) == IF x = NaNFloat THEN value ELSE x

\* the coercion with the fillna(0) left out
coerce_rating_unfilled(cell) == to_numeric(cell)

coerce_rating(cell) == fillna_num(to_numeric(cell), 0)

(***************************************************************************)
(* add_emojis (lines 26-39).  "@" and "%" stand for the emoji of Romance   *)
(* and Drama, two of the table's twenty entries.                           *)
(***************************************************************************)
genre_emoji_get(word) ==
    IF word = Romance THEN <<"@">>
    ELSE IF word = Drama THEN <<"%">>
    ELSE << >>

\* text.split(",")
RECURSIVE split(_, _)
split(s, sep) ==
    LET hits == {k \in 1..Len(s) : s[k] = sep}
    IN IF hits = {} THEN <<s>>
       ELSE <<Slice(s, 0, Min(hits) - 1)>> \o split(Slice(s, Min(hits), Len(s)), sep)

add_emojis(text) ==
    IF isna(text) THEN NotSpecified
    ELSE LET words == split(text, ",")
         IN Join(<<",", " ">>,
                 [k \in 1..Len(words) |->
                    genre_emoji_get(strip(words[k])) \o <<" ">> \o strip(words[k])])

(***************************************************************************)
(* The catalog after lines 10-49: one record per row.                      *)
(***************************************************************************)
LoadRow(row) ==
    LET genres == add_emojis(fillna(row.Genres, NotSpecified))
        mood == fillna(row.Mood_Tags, NotSpecified)
        summary == fillna(row.Summary, NotSpecified)
        leads == fillna(row.Main_Leads, NotSpecified)
    IN [Title |-> row.Title,
        Genres |-> genres,
        Mood_Tags |-> mood,
        Summary |-> summary,
        Main_Leads |-> leads,
        Personal_rating_out_of_10 |-> coerce_rating(row.Personal_rating_out_of_10),
        Combined_Features |-> fillna(genres, << >>) \o <<" ">> \o fillna(mood, << >>) \o <<" ">>
                              \o fillna(summary, << >>) \o <<" ">> \o fillna(leads, << >>)]

LoadCatalog(csv) == [k \in 1..Len(csv) |-> LoadRow(csv[k])]

(***************************************************************************)
(* TfidfVectorizer(stop_words="english") and cosine_similarity (lines      *)
(* 50-52).  The weights are real numbers; the model keeps what the order   *)
(* of a row of cosine_sim rests on: a similarity is one of 0..SimTop,      *)
(* SimTop standing for 1.0, and a matrix is any one consistent with the    *)
(* terms of the composite texts.                                           *)
(***************************************************************************)
SimTop == 2

Letters == {"a", "b", "c", "d", "e", "f", "i", "m", "n", "o", "p", "r", "s", "t", "x",
            "A", "B", "D", "N", "R"}
IsWordChar(c) == c \in Letters \cup Digits

RECURSIVE RunEnd(_, _)
RunEnd(s, k) == IF k < Len(s) /\ IsWordChar(s[k + 1]) THEN RunEnd(s, k + 1) ELSE k

\* token_pattern (?u)\b\w\w+\b: the runs of two or more word characters
Tokens(s) ==
    LET starts == {k \in 1..Len(s) : IsWordChar(s[k]) /\ (k = 1 \/ ~IsWordChar(s[k - 1]))}
    IN {Slice(s, k - 1, RunEnd(s, k)) : k \in {j \in starts : RunEnd(s, j) > j}}

\* of the English stop words, the one the texts of the model hold
StopWords == {<<"n", "o", "t">>}

Terms(text) == Tokens(lower(text)) \ StopWords

\* how often each term occurs in a text
TermCounts(text) ==
    LET low == lower(text)
        starts == {k \in 1..Len(low) : IsWordChar(low[k]) /\ (k = 1 \/ ~IsWordChar(low[k - 1]))}
    IN [t \in Terms(text) |->
          Cardinality({k \in starts : Slice(low, k - 1, RunEnd(low, k)) = t})]

\* the matrices cosine_similarity can return for the catalog d
CosineSimsOf(counts) ==
    LET n == Len(counts)
        terms == [k \in 1..n |-> DOMAIN counts[k]]
    IN {sim \in [1..n -> [1..n -> 0..SimTop]] :
          /\ \A i \in 1..n : sim[i][i] = IF terms[i] = {} THEN 0 ELSE SimTop
          /\ \A i, j \in 1..n :
               /\ sim[i][j] = sim[j][i]
               /\ (sim[i][j] = 0) <=> (terms[i] \cap terms[j] = {})
               /\ (counts[i] = counts[j] /\ terms[i] # {}) => sim[i][j] = SimTop
               /\ (i # j /\ sim[i][j] = SimTop) => sim[i] = sim[j]}

CosineSims(d) ==
    UNION {CosineSimsOf(c) : c \in {[k \in 1..Len(d) |-> TermCounts(d[k].Combined_Features)]}}

(***************************************************************************)
(* sorted(pairs, key=lambda x: x[1], reverse=True) (lines 71, 78): Python's *)
(* sort is stable, so equal keys keep their order.  The result lists the   *)
(* 0-based indices.                                                        *)
(***************************************************************************)
sorted_reverse(key) ==
    LET n == Len(key)
        rank(i) == Cardinality({j \in 1..n : key[j] > key[i] \/ (key[j] = key[i] /\ j < i)})
    IN [pos \in 1..n |-> (CHOOSE i \in 1..n : rank(i) = pos - 1) - 1]

(***************************************************************************)
(* df.sort_values("Personal_rating_out_of_10", ascending=False) (line 93). *)
(* The default kind is quicksort, which is not stable: the order of equal   *)
(* ratings is whatever the sort of the build gives, the same at every call. *)
(***************************************************************************)
Perms(n) == {p \in [1..n -> 0..(n - 1)] : \A x, y \in 1..n : x # y => p[x] # p[y]}

SortValuesOrders(d) ==
    {p \in Perms(Len(d)) :
       \A x \in 1..(Len(d) - 1) :
          d[p[x] + 1].Personal_rating_out_of_10 >= d[p[x + 1] + 1].Personal_rating_out_of_10}

(***************************************************************************)
(* Series.str.contains(query) (line 83): query is compiled as a regular    *)
(* expression.  Over the characters of the model's queries, "." matches    *)
(* any character, "(" opens a group nothing closes, the rest are literal.  *)
(***************************************************************************)
re_compiles(pat) == \A k \in 1..Len(pat) : pat[k] # "("

re_search(pat, s) ==
    \E off \in 0..(Len(s) - Len(pat)) :
       \A k \in 1..Len(pat) : pat[k] = "." \/ s[off + k] = pat[k]

(***************************************************************************)
(* What a call gives back: the header and the records (with the indices    *)
(* they were read at), the branch taken and, in the title branch, idx, the *)
(* index of the matched record.                                            *)
(***************************************************************************)
Returned(branch, header, idx, title, indices, d) ==
    [kind |-> "return", branch |-> branch, header |-> header, idx |-> idx, title |-> title,
     indices |-> indices, records |-> [k \in 1..Len(indices) |-> d[indices[k] + 1]]]

Raised(exc) ==
    [kind |-> "raise", branch |-> "keyword", header |-> exc, idx |-> -1, title |-> << >>,
     indices |-> << >>, records |-> << >>]

NoCall ==
    [kind |-> "none", branch |-> "none", header |-> "", idx |-> -1, title |-> << >>,
     indices |-> << >>, records |-> << >>]

EnterNameHeader == "Please enter a drama name or keyword."
LikedHeader == "If you liked <b>{drama_title}</b>, you might also enjoy:"
NoResultsHeader == "No dramas found for your search. Try another keyword!"
KeywordHeader == "Here are some dramas similar to what you searched for:"

(***************************************************************************)
(* recommend (lines 63-90).                                                *)
(***************************************************************************)
TitleMatchThreshold == 80

\* line 64
normalize(query) == lower(strip(query))

\* line 69
search_space(d) ==
    [k \in 1..Len(d) |->
       lower(Join(<<" ">>, <<fillna(d[k].Title, << >>), fillna(d[k].Genres, << >>),
                            fillna(d[k].Mood_Tags, << >>)>>))]

\* the scores with fuzz.ratio, the whole-string ratio, in place of
\* fuzz.partial_ratio
fuzzy_scores_whole_ratio(d, q) ==
    Bind(search_space(d),
         LAMBDA texts : [k \in 1..Len(d) |-> IF q = texts[k] THEN 100 ELSE intr100(ratio(q, texts[k]))])

\* line 70: the score of every record, in catalog order
fuzzy_scores(d, q) ==
    Bind(search_space(d), LAMBDA texts : [k \in 1..Len(d) |-> partial_ratio(q, texts[k])])

\* the test with >= in place of >
IsTitleMatch_at_least(matches, scores) ==
    matches # << >> /\ scores[matches[1] + 1] >= TitleMatchThreshold

\* line 74, matches being the indices sorted by score (line 71)
IsTitleMatch(matches, scores) ==
    matches # << >> /\ scores[matches[1] + 1] > TitleMatchThreshold

\* the slice that keeps rank 0: [0:num_recommendations+1]
title_recommendations_keep_first(sim_row, num_recommendations) ==
    Bind(sorted_reverse(sim_row), LAMBDA sim_scores : Slice(sim_scores, 0, num_recommendations + 1))

\* lines 77-79
title_recommendations(sim_row, num_recommendations) ==
    Bind(sorted_reverse(sim_row), LAMBDA sim_scores : Slice(sim_scores, 1, num_recommendations + 1))

\* line 83: the indices of the rows the pattern is found in, in catalog order
keyword_filter(d, q) ==
    Bind(search_space(d),
         LAMBDA texts :
           Bind({k \in 1..Len(d) : re_search(q, texts[k])},
                LAMBDA hits :
                  [pos \in 1..Cardinality(hits) |->
                     (CHOOSE k \in hits : Cardinality({h \in hits : h < k}) = pos - 1) - 1]))

\* lines 74-80
title_branch(d, sim, idx, num_recommendations) ==
    Bind(title_recommendations(sim[idx + 1], num_recommendations),
         LAMBDA recommended_indices :
           Returned("title", LikedHeader, idx, d[idx + 1].Title, recommended_indices, d))

\* lines 81-87
keyword_branch(d, q, num_recommendations) ==
    IF ~re_compiles(q) THEN Raised("re.error")
    ELSE Bind(keyword_filter(d, q),
              LAMBDA filtered :
                IF filtered = << >> THEN Returned("keyword", NoResultsHeader, -1, << >>, << >>, d)
                ELSE Bind(Slice(filtered, 0, num_recommendations),
                          LAMBDA recommended_indices :
                            Returned("keyword", KeywordHeader, -1, << >>, recommended_indices, d)))

recommend_normalized(d, sim, q, num_recommendations) ==
    IF q = << >> THEN Returned("empty", EnterNameHeader, -1, << >>, << >>, d)
    ELSE Bind(fuzzy_scores(d, q),
              LAMBDA scores :
                Bind(sorted_reverse(scores),
                     LAMBDA matches :
                       IF IsTitleMatch(matches, scores)
                       THEN title_branch(d, sim, matches[1], num_recommendations)
                       ELSE keyword_branch(d, q, num_recommendations)))

\* the call: what it returns, and the globals as it leaves them
recommend(d, sim, query, num_recommendations) ==
    [ret |-> Bind(normalize(query), LAMBDA q : recommend_normalized(d, sim, q, num_recommendations)),
     df |-> d, cosine_sim |-> sim]

(***************************************************************************)
(* get_top_rated (lines 92-95): order is what sort_values gives, the       *)
(* indices of the catalog by rating.                                       *)
(***************************************************************************)
\* the page counted from 0: start, end = page*per_page, (page+1)*per_page
top_rated_page_from_zero(order, page, per_page) ==
    Slice(order, page * per_page, (page + 1) * per_page)

top_rated_page(order, page, per_page) ==
    LET start == (page - 1) * per_page
        end == page * per_page
    IN Slice(order, start, end)

\* the sort done in place (inplace=True): the catalog is left sorted
get_top_rated_inplace(d, order, page, per_page) ==
    [ret |-> Bind(top_rated_page(order, page, per_page),
                  LAMBDA indices : Returned("top_rated", "", -1, << >>, indices, d)),
     df |-> [k \in 1..Len(d) |-> d[order[k] + 1]]]

get_top_rated(d, order, page, per_page) ==
    [ret |-> Bind(top_rated_page(order, page, per_page),
                  LAMBDA indices : Returned("top_rated", "", -1, << >>, indices, d)),
     df |-> d]

(***************************************************************************)
(* The state: the input table, the globals built from it at startup, the   *)
(* order the build's quicksort gives the catalog, and the call being made  *)
(* with what it gave back.  startup keeps the globals as they were built.  *)
(* Calls are made one at a time (the script runs to its end before the     *)
(* next interaction): a call is made when none is shown, and Render (lines *)
(* 144-160 and 169-180) shows its result and drops it.                     *)
(***************************************************************************)
VARIABLES csv, df, cosine_sim, sort_order, startup, call, result
vars == <<csv, df, cosine_sim, sort_order, startup, call, result>>

QueryChars == {"A", ".", "(", " "}
Queries == UNION {[1..n -> QueryChars] : n \in 0..MaxQueryLen}

NoArgs == [op |-> "none", query |-> << >>, num |-> 0, page |-> 0, per_page |-> 0]

\* fit_transform raises at startup when no text holds a term
HasVocabulary(d) == \E k \in 1..Len(d) : Terms(d[k].Combined_Features) # {}

Init ==
    /\ csv \in {c \in Catalogs : HasVocabulary(LoadCatalog(c))}
    /\ df = LoadCatalog(csv)
    /\ cosine_sim \in CosineSims(df)
    /\ sort_order \in SortValuesOrders(df)
    /\ startup = [df |-> df, cosine_sim |-> cosine_sim]
    /\ call = NoArgs
    /\ result = NoCall

Recommend ==
    /\ call.op = "none"
    /\ \E query \in Queries, num \in 0..MaxCount :
         \E r \in {recommend(df, cosine_sim, query, num)} :
            /\ call' = [op |-> "recommend", query |-> query, num |-> num,
                        page |-> 0, per_page |-> 0]
            /\ result' = r.ret
            /\ df' = r.df
            /\ cosine_sim' = r.cosine_sim
            /\ UNCHANGED <<csv, sort_order, startup>>

GetTopRated ==
    /\ call.op = "none"
    /\ \E page \in 1..MaxPage, per_page \in 1..MaxPerPage :
         \E r \in {get_top_rated(df, sort_order, page, per_page)} :
            /\ call' = [op |-> "get_top_rated", query |-> << >>, num |-> 0,
                        page |-> page, per_page |-> per_page]
            /\ result' = r.ret
            /\ df' = r.df
            /\ UNCHANGED <<csv, cosine_sim, sort_order, startup>>

Render ==
    /\ call.op # "none"
    /\ call' = NoArgs
    /\ result' = NoCall
    /\ UNCHANGED <<csv, df, cosine_sim, sort_order, startup>>

Next == Recommend \/ GetTopRated \/ Render

Spec == Init /\ [][Next]_vars

(***************************************************************************)
(* The claims.  Query is the normalized query of the call made, Blobs the  *)
(* search blobs of the catalog, BestScore the highest fuzzy score.         *)
(***************************************************************************)
Query == normalize(call.query)
Blobs == search_space(df)
Rating(i) == df[i + 1].Personal_rating_out_of_10
IsRecommend == call.op = "recommend"
IsTopRated == call.op = "get_top_rated"
BestScoreOf(scores) == Max({scores[k] : k \in 1..Len(scores)})

\* the indices of the records whose blob holds q literally, in catalog order
LiteralHits(q) ==
    Bind({k \in 1..Len(df) : IsSubstring(q, Blobs[k])},
         LAMBDA hits :
           [pos \in 1..Cardinality(hits) |->
              (CHOOSE k \in hits : Cardinality({h \in hits : h < k}) = pos - 1) - 1])

\* C1: in the title-match branch the matched record's index is never among
\* the returned records.
C1_MatchedRecordExcluded ==
    (IsRecommend /\ result.branch = "title")
        => \A k \in 1..Len(result.indices) : result.indices[k] # result.idx

\* C2: recommend(query, count) with count >= 0 returns at most count records,
\* in the title-match and in the keyword branch, and none with the
\* empty-input and the no-results signal.
C2_AtMostCount ==
    (IsRecommend /\ result.kind = "return")
        => /\ Len(result.records) <= call.num
           /\ Len(result.records) = Len(result.indices)
           /\ result.header \in {EnterNameHeader, NoResultsHeader} => result.records = << >>

\* a keyword search that found more records than asked for and returned count
C2_Witness ==
    /\ IsRecommend
    /\ result.branch = "keyword"
    /\ result.kind = "return"
    /\ call.num >= 1
    /\ Len(result.records) = call.num
    /\ Len(keyword_filter(df, Query)) > call.num

\* C3: in the keyword branch the returned records are the first count, in
\* catalog order, of those whose blob holds the query as a literal substring,
\* and the no-results signal is given exactly when there is none.
C3_KeywordIsLiteral ==
    (IsRecommend /\ result.branch = "keyword")
        => /\ result.kind = "return"
           /\ result.indices = Slice(LiteralHits(Query), 0, call.num)
           /\ (result.header = NoResultsHeader) <=> (LiteralHits(Query) = << >>)

\* C4: recommend returns a header and a list for every query and count; it
\* never raises.
C4_NeverRaises == IsRecommend => result.kind = "return"

\* C5: for a non-empty normalized query the title-match branch is taken
\* exactly when the highest partial fuzzy score is above 80 (80 itself is a
\* keyword search, whatever the count); the matched record then has the
\* highest score and the header names its title.
C5_TitleBranchIffAbove80 ==
    (IsRecommend /\ Query # << >>)
        => LET scores == fuzzy_scores(df, Query)
               best == BestScoreOf(scores)
           IN /\ (result.branch = "title") <=> (best > 80)
              /\ (result.branch # "title") => result.branch = "keyword"
              /\ (result.branch = "title")
                    => /\ result.idx \in 0..(Len(df) - 1)
                       /\ scores[result.idx + 1] = best
                       /\ result.header = LikedHeader
                       /\ result.title = df[result.idx + 1].Title

\* a query whose best score is exactly 80, taken as a keyword search
C5_Witness ==
    /\ IsRecommend
    /\ Query # << >>
    /\ BestScoreOf(fuzzy_scores(df, Query)) = 80
    /\ result.branch = "keyword"

\* C6: get_top_rated(page, p) returns min(p, max(0, n - (page-1)*p)) records
\* in non-increasing rating order, none rated above a record of an earlier
\* page; a page past the last record is empty; pages 1..k together list
\* every record exactly once.
C6_Pages ==
    IsTopRated
        => LET n == Len(df)
               p == call.per_page
               left == n - (call.page - 1) * p
               pages == [j \in 1..(n + 1) |-> top_rated_page(sort_order, j, p)]
           IN /\ result.kind = "return"
              /\ Len(result.records) = (IF left < 0 THEN 0 ELSE IF left < p THEN left ELSE p)
              /\ result.records = [k \in 1..Len(result.indices) |-> df[result.indices[k] + 1]]
              /\ \A k \in 1..(Len(result.indices) - 1) :
                    Rating(result.indices[k]) >= Rating(result.indices[k + 1])
              /\ \A j \in 1..(n + 1) :
                    j < call.page =>
                       \A x \in 1..Len(pages[j]), y \in 1..Len(result.indices) :
                          Rating(pages[j][x]) >= Rating(result.indices[y])
              /\ \A i \in 0..(n - 1) :
                    Cardinality({c \in (1..(n + 1)) \X (1..p) :
                                   c[2] <= Len(pages[c[1]]) /\ pages[c[1]][c[2]] = i}) = 1

\* a second page that holds a record, and so follows a full first page
C6_Witness ==
    /\ IsTopRated
    /\ call.page = 2
    /\ result.records # << >>

ExpectedRating(cell) ==
    CASE cell = NaN -> 0
      [] cell = <<"x">> -> 0
      [] cell = <<"-", "3">> -> -3
      [] cell = <<"i", "n", "f">> -> Infinity
      [] cell = <<"7">> -> 7
      [] cell = <<"1", "2">> -> 12

C8_StableByIndex ==
    /\ \A x, y \in 1..Len(sort_order) :
          (x < y /\ Rating(sort_order[x]) = Rating(sort_order[y])) => sort_order[x] < sort_order[y]
    /\ IsTopRated =>
          result.indices =
             top_rated_page(sorted_reverse([k \in 1..Len(df) |-> Rating(k - 1)]),
                            call.page, call.per_page)

\* C9: recommend and get_top_rated leave the catalog (with its composite
\* texts) and the similarity matrix as they were at startup, so what a call
\* returns depends on its arguments alone, not on the calls before it.
C9_GlobalsUnchanged ==
    /\ df = startup.df
    /\ cosine_sim = startup.cosine_sim
    /\ IsRecommend =>
          result = recommend(startup.df, startup.cosine_sim, call.query, call.num).ret
    /\ IsTopRated =>
          result = get_top_rated(startup.df, sort_order, call.page, call.per_page).ret

\* a page of get_top_rated whose order is not the catalog's, the catalog
\* itself still in its order
C9_Witness ==
    /\ IsTopRated
    /\ Len(result.indices) = 2
    /\ result.indices[1] > result.indices[2]
    /\ df = startup.df

\* C10: a query that occurs literally in some blob scores 100 and is taken as
\* a title match, so a keyword search that returns records never has a query
\* that occurs literally in a blob.
C10_LiteralIsTitleMatch ==
    (IsRecommend /\ Query # << >>)
        => /\ (\E k \in 1..Len(df) : IsSubstring(Query, Blobs[k]))
                 => /\ result.branch = "title"
                    /\ BestScoreOf(fuzzy_scores(df, Query)) = 100
           /\ (result.header = KeywordHeader /\ result.records # << >>)
                 => \A k \in 1..Len(df) : ~IsSubstring(Query, Blobs[k])

\* C10, amended: a query that occurs literally in a blob of fewer than 200
\* characters scores 100 and is taken as a title match; a keyword search that
\* returns records has a query that occurs literally in no such blob.
C10_LiteralInShortBlobIsTitleMatch ==
    (IsRecommend /\ Query # << >>)
        => /\ (\E k \in 1..Len(df) : Len(Blobs[k]) < 200 /\ IsSubstring(Query, Blobs[k]))
                 => /\ result.branch = "title"
                    /\ BestScoreOf(fuzzy_scores(df, Query)) = 100
           /\ (result.header = KeywordHeader /\ result.records # << >>)
                 => \A k \in 1..Len(df) : IsSubstring(Query, Blobs[k]) => Len(Blobs[k]) >= 200

\* a query with a pattern character that occurs literally in a short blob,
\* taken as a title match
C10_Witness ==
    /\ IsRecommend
    /\ result.branch = "title"
    /\ \E k \in 1..Len(Query) : Query[k] = "."
    /\ \E k \in 1..Len(df) : Len(Blobs[k]) < 200 /\ IsSubstring(Query, Blobs[k])
====
